---- MODULE Spec2Model ----
(***************************************************************************)
(* Model of the Dev-jams repository:                                       *)
(*   src/Actual_bankstatement_parser.py  - statement-to-ledger script      *)
(*   src/prediction_with_mutualfunds_recomendation.py - forecast and       *)
(*                                          investment-rule pipeline       *)
(* Text is modelled as sequences of one-character strings so that          *)
(* lower-casing, regular-expression substitution and substring tests are   *)
(* computed character by character, as the Python code computes them.      *)
(* Money is modelled in integers (no floating-point rounding).             *)
(***************************************************************************)
EXTENDS Integers, Sequences, FiniteSets, TLC

VARIABLES
    \* ---- Actual_bankstatement_parser.py (module-level script) ----
    pc,                 \* position in the script
    df_raw,             \* the raw sheet: a sequence of rows of 7 cells
    start_idx,          \* transaction_start_idx (None or an integer)
    end_idx,            \* transaction_end_idx   (None or an integer)
    df,                 \* the ledger data frame: a sequence of row records
    total_expenditure,
    total_income,
    category_spending,  \* groupby('category') sum: category -> amount
    saved,              \* rows written to cleaned_bank_statement.xlsx
    header_info,        \* the dict extract_header_info returned
    \* ---- remove_outliers applied to a series (SpecOutlier) ----
    o_series,           \* monthly_df handed to the first call
    o_lower,            \* lower_quantile, in percent
    o_upper,            \* upper_quantile, in percent
    o_passes,           \* results of the successive calls
    \* ---- prediction_with_mutualfunds_recomendation.py: main() ----
    mpc,                \* position in main
    m_df,               \* df returned by load_data
    monthly_df,
    prophet_df,         \* the series handed to the forecaster
    forecast,           \* the forecaster's data frame
    displayed,          \* rows printed by display_forecast
    excel,              \* rows written by save_forecast_to_excel
    average_expense,
    current_balance,
    investable_amount,  \* in tenths of a currency unit
    age,
    mutual_funds,
    plan                \* what create_investment_plan computed

parserVars ==
    <<pc, df_raw, start_idx, end_idx, df, total_expenditure, total_income,
      category_spending, saved, header_info>>

outlierVars ==
    <<o_series, o_lower, o_upper, o_passes>>

mainVars ==
    <<mpc, m_df, monthly_df, prophet_df, forecast, displayed, excel,
      average_expense, current_balance, investable_amount, age, mutual_funds, plan>>

vars ==
    <<parserVars, outlierVars, mainVars>>

(***************************************************************************)
(* Bounds of the model                                                     *)
(***************************************************************************)
\* longest raw sheet of SpecParser
MaxRows == 4
\* most transaction rows between the markers in SpecLedger
MaxTx == 2
\* most tokens of a raw narration in SpecClassify
MaxTokens == 2
\* longest monthly series of SpecOutlier
MaxPoints == 5
\* largest age of SpecInvest
MaxAge == 65
\* most rows of the statement main() loads in SpecMain
MaxLedger == 2
\* most top rows of a sheet of SpecHeader
MaxHeaderRows == 3
\* most rows of a data frame of SpecAggregate
MaxAggRows == 3
\* months the forecaster is asked for (36 in main)
Periods == 1

(***************************************************************************)
(* Generic helpers                                                         *)
(***************************************************************************)
Max2(a, b) ==
    IF a >= b THEN a ELSE b

Min2(a, b) ==
    IF a <= b THEN a ELSE b

\* Python's None and an integer, kept apart by a tag
None ==
    [isNone |-> TRUE, v |-> 0]

Some(n) ==
    [isNone |-> FALSE, v |-> n]

\* all sequences over S of length lo..hi
SeqsOf(S, lo, hi) ==
    UNION {[1..n -> S] : n \in lo..hi}

(***************************************************************************)
(* Text: str.lower(), `in`, ' '.join, str(int)                             *)
(***************************************************************************)
UpperChars ==
    <<"A","B","C","D","E","F","G","H","I","J","K","L","M",
      "N","O","P","Q","R","S","T","U","V","W","X","Y","Z">>

LowerChars ==
    <<"a","b","c","d","e","f","g","h","i","j","k","l","m",
      "n","o","p","q","r","s","t","u","v","w","x","y","z">>

DigitChars ==
    <<"0","1","2","3","4","5","6","7","8","9">>

Range(s) ==
    {s[i] : i \in 1..Len(s)}

UpperSet ==
    Range(UpperChars)

LowerSet ==
    Range(LowerChars)

DigitSet ==
    Range(DigitChars)

\* the lower-case letter of each upper-case letter
UpperToLower ==
    [c \in UpperSet |-> LowerChars[CHOOSE i \in 1..26 : UpperChars[i] = c]]

\* str.lower() on one character
LowerChar(c) ==
    IF c \in UpperSet THEN UpperToLower[c] ELSE c

\* str.lower()
Lower(s) ==
    [i \in 1..Len(s) |-> LowerChar(s[i])]

\* Python's `kw in s` on strings: kw occurs as a contiguous substring of s
Contains(kw, s) ==
    \/ kw = <<>>
    \/ \E i \in 0..(Len(s) - Len(kw)) :
           s[i + 1] = kw[1] /\ SubSeq(s, i + 1, i + Len(kw)) = kw

\* ' '.join(parts)
RECURSIVE JoinSpace(_)
JoinSpace(parts) ==
    IF parts = <<>> THEN <<>>
    ELSE IF Len(parts) = 1 THEN Head(parts)
    ELSE Head(parts) \o <<" ">> \o JoinSpace(Tail(parts))

\* str(n) for a natural number
RECURSIVE NatToStr(_)
NatToStr(n) ==
    IF n < 10 THEN <<DigitChars[n + 1]>>
    ELSE NatToStr(n \div 10) \o <<DigitChars[(n % 10) + 1]>>

\* str(n) for an integer
IntToStr(n) ==
    IF n < 0 THEN <<"-">> \o NatToStr(0 - n) ELSE NatToStr(n)

IsDigit(c) ==
    c \in DigitSet

DigitVal(c) ==
    (CHOOSE i \in 1..10 : DigitChars[i] = c) - 1

\* value of a non-empty string of digits
RECURSIVE DigitsToNat(_)
DigitsToNat(s) ==
    IF Len(s) = 1 THEN DigitVal(s[1])
    ELSE 10 * DigitsToNat(SubSeq(s, 1, Len(s) - 1)) + DigitVal(s[Len(s)])

AllDigits(s) ==
    /\ Len(s) > 0
    /\ \A i \in 1..Len(s) : IsDigit(s[i])

(***************************************************************************)
(* Cells of the raw sheet: a number, a text, or an empty cell (NaN)        *)
(***************************************************************************)
NumCell(n) ==
    [t |-> "num", n |-> n, s |-> <<>>]

TxtCell(s) ==
    [t |-> "str", n |-> 0, s |-> s]

NaNCell ==
    [t |-> "nan", n |-> 0, s |-> <<>>]

\* Series.astype(str) on one cell
AsStr(cell) ==
    CASE cell.t = "num" -> IntToStr(cell.n)
      [] cell.t = "str" -> cell.s
      [] OTHER          -> <<"n","a","n">>

\* pd.to_numeric(..., errors='coerce').fillna(0) on one cell: a number stays,
\* a text that reads as an integer is parsed, anything else becomes NaN -> 0
ToNumericFillna(cell) ==
    CASE cell.t = "num" -> cell.n
      [] cell.t = "str" ->
            IF AllDigits(cell.s) THEN DigitsToNat(cell.s)
            ELSE IF Len(cell.s) > 1 /\ cell.s[1] = "-" /\ AllDigits(Tail(cell.s))
                 THEN 0 - DigitsToNat(Tail(cell.s))
                 ELSE 0
      [] OTHER -> 0

(***************************************************************************)
(* Actual_bankstatement_parser.py: table locator                           *)
(***************************************************************************)
\* row_values = df.iloc[i].astype(str).str.lower()
RowValues(row) ==
    [c \in 1..Len(row) |-> Lower(AsStr(row[c]))]

\* 'date' in row_values.values and 'narration' in row_values.values
IsHeaderRow(row) ==
    /\ <<"d","a","t","e">> \in Range(RowValues(row))
    /\ <<"n","a","r","r","a","t","i","o","n">> \in Range(RowValues(row))

\* 'statement summary' in ' '.join(row_values)
IsSummaryRow(row) ==
    Contains(<<"s","t","a","t","e","m","e","n","t"," ","s","u","m","m","a","r","y">>,
             JoinSpace(RowValues(row)))

\* the loop of find_transaction_data_indices from 1-based row i on (Python's
\* index is i - 1); the header test overwrites the start on every match, the
\* summary test is an elif and breaks
RECURSIVE FindFrom(_, _, _, _)
FindFrom(sheet, i, s, e) ==
    IF i > Len(sheet) THEN <<s, e>>
    ELSE IF IsHeaderRow(sheet[i]) THEN FindFrom(sheet, i + 1, Some((i - 1) + 1), e)
    ELSE IF IsSummaryRow(sheet[i]) THEN <<s, Some((i - 1) - 1)>>
    ELSE FindFrom(sheet, i + 1, s, e)

find_transaction_data_indices(sheet) ==
    FindFrom(sheet, 1, None, None)

\* one bound of a Python slice over a sequence of length n: None takes the
\* default, a negative bound counts from the end, and the result is clamped
SliceBound(b, n, default) ==
    IF b.isNone THEN default
    ELSE IF b.v < 0 THEN Max2(n + b.v, 0)
    ELSE Min2(b.v, n)

\* df_raw.iloc[start_idx:end_idx]: rows start_idx .. end_idx - 1 (0-based),
\* i.e. the end bound is exclusive
ILoc(sheet, s, e) ==
    LET lo == SliceBound(s, Len(sheet), 0)
        hi == SliceBound(e, Len(sheet), Len(sheet))
    IN  IF lo < hi THEN SubSeq(sheet, lo + 1, hi) ELSE <<>>

\* df.columns = [...] followed by the clean-up of the column names
NamedRow(row) ==
    [date            |-> row[1],
     value_dt        |-> row[2],
     narration       |-> row[3],
     chq_ref_number  |-> row[4],
     withdrawal_amt  |-> row[5],
     deposit_amt     |-> row[6],
     closing_balance |-> row[7]]

(***************************************************************************)
(* Ledger normalizer                                                       *)
(***************************************************************************)
\* mutant: the deposit field is tested first
calculate_amount_deposit_first(row) ==
    IF row.deposit_amt > 0 THEN row.deposit_amt
    ELSE IF row.withdrawal_amt > 0 THEN row.withdrawal_amt
    ELSE 0

calculate_amount(row) ==
    IF row.withdrawal_amt > 0 THEN row.withdrawal_amt
    ELSE IF row.deposit_amt > 0 THEN row.deposit_amt
    ELSE 0

calculate_transaction_type(row) ==
    IF row.withdrawal_amt > 0 THEN "withdrawal"
    ELSE IF row.deposit_amt > 0 THEN "deposit"
    ELSE "unknown"

(***************************************************************************)
(* Narration classifier                                                    *)
(***************************************************************************)
IsAlnumOrSpace(c) ==
    \/ c \in LowerSet
    \/ c \in UpperSet
    \/ c \in DigitSet
    \/ c = " "

\* re.sub(r'[^a-zA-Z0-9 ]', ' ', text)
SubNonAlnum(s) ==
    [i \in 1..Len(s) |-> IF IsAlnumOrSpace(s[i]) THEN s[i] ELSE " "]

\* re.sub(r'\s+', ' ', text): after SubNonAlnum the only white space is ' '
RECURSIVE CollapseSpaces(_)
CollapseSpaces(s) ==
    IF Len(s) < 2 THEN s
    ELSE IF s[1] = " " /\ s[2] = " " THEN CollapseSpaces(Tail(s))
    ELSE <<s[1]>> \o CollapseSpaces(Tail(s))

\* str.strip() on a string with runs of spaces already collapsed
Strip(s) ==
    LET a == IF Len(s) > 0 /\ s[1] = " " THEN Tail(s) ELSE s
    IN  IF Len(a) > 0 /\ a[Len(a)] = " " THEN SubSeq(a, 1, Len(a) - 1) ELSE a

\* clean_text applied to a cell: str(text).lower(), the two substitutions, strip
clean_text(cell) ==
    Strip(CollapseSpaces(SubNonAlnum(Lower(AsStr(cell)))))

\* the module-level dict, in insertion order
categories ==
    << [name |-> "transfer", keywords |-> <<
           <<"u","p","i">>,
           <<"i","m","p","s">>,
           <<"n","e","f","t">>,
           <<"r","t","g","s">>,
           <<"i","b"," ","b","i","l","l","p","a","y">>,
           <<"b","i","l","l","p","a","y">>
       >>],
       [name |-> "salary", keywords |-> <<
           <<"s","a","l","a","r","y">>,
           <<"p","a","y","r","o","l","l">>,
           <<"c","r","e","d","i","t">>
       >>],
       [name |-> "shopping", keywords |-> <<
           <<"a","m","a","z","o","n">>,
           <<"f","l","i","p","k","a","r","t">>,
           <<"m","y","n","t","r","a">>,
           <<"s","h","o","p","p","i","n","g">>,
           <<"e","c","o","m","m","e","r","c","e">>,
           <<"p","a","y","t","m">>
       >>],
       [name |-> "food", keywords |-> <<
           <<"s","w","i","g","g","y">>,
           <<"z","o","m","a","t","o">>,
           <<"f","o","o","d">>,
           <<"r","e","s","t","a","u","r","a","n","t">>,
           <<"c","a","f","e">>,
           <<"l","u","l","u","i","n","t","e","r","n","a","t","i","o","n","a","l","s","h","o">>,
           <<"b","a","k","e","r","y">>,
           <<"g","p","a","y">>
       >>],
       [name |-> "entertainment", keywords |-> <<
           <<"n","e","t","f","l","i","x">>,
           <<"y","o","u","t","u","b","e">>,
           <<"s","p","o","t","i","f","y">>,
           <<"e","n","t","e","r","t","a","i","n","m","e","n","t">>
       >>],
       [name |-> "utilities", keywords |-> <<
           <<"e","l","e","c","t","r","i","c","i","t","y">>,
           <<"w","a","t","e","r">>,
           <<"g","a","s">>,
           <<"b","i","l","l">>,
           <<"r","e","c","h","a","r","g","e">>
       >>],
       [name |-> "fuel", keywords |-> <<
           <<"p","e","t","r","o","l">>,
           <<"d","i","e","s","e","l">>,
           <<"f","u","e","l">>,
           <<"h","p","c","l">>,
           <<"b","p","c","l">>
       >>],
       [name |-> "others", keywords |-> << >>] >>

\* the two nested for loops of categorize_transaction, from category ci and
\* keyword ki on
RECURSIVE CategorizeFrom(_, _, _)
CategorizeFrom(narration, ci, ki) ==
    IF ci > Len(categories) THEN "others"
    ELSE IF ki > Len(categories[ci].keywords) THEN CategorizeFrom(narration, ci + 1, 1)
    ELSE IF Contains(categories[ci].keywords[ki], narration) THEN categories[ci].name
    ELSE CategorizeFrom(narration, ci, ki + 1)

\* mutant: the last matching category wins (the dict is walked backwards)
RECURSIVE CategorizeBack(_, _, _)
CategorizeBack(narration, ci, ki) ==
    IF ci < 1 THEN "others"
    ELSE IF ki > Len(categories[ci].keywords) THEN CategorizeBack(narration, ci - 1, 1)
    ELSE IF Contains(categories[ci].keywords[ki], narration) THEN categories[ci].name
    ELSE CategorizeBack(narration, ci, ki + 1)

categorize_transaction_last_wins(narration) ==
    CategorizeBack(narration, Len(categories), 1)

categorize_transaction(narration) ==
    CategorizeFrom(narration, 1, 1)

(***************************************************************************)
(* Aggregator: totals and spending by category                             *)
(***************************************************************************)
\* df[df[col] == val]
FilterBy(rows, col, val) ==
    SelectSeq(rows, LAMBDA r : r[col] = val)

\* ['amount'].sum()
RECURSIVE SumAmount(_)
SumAmount(rows) ==
    IF rows = <<>> THEN 0 ELSE Head(rows).amount + SumAmount(Tail(rows))

\* mutant: the group-by runs over all rows instead of the withdrawals
GroupByCategorySumAll(rows) ==
    LET keys == {rows[i].category : i \in 1..Len(rows)}
    IN  [k \in keys |-> SumAmount(FilterBy(rows, "category", k))]

\* df[df['transaction_type'] == 'withdrawal'].groupby('category')['amount'].sum():
\* one entry per category that occurs among the withdrawal rows
GroupByCategorySum(rows) ==
    LET w    == FilterBy(rows, "transaction_type", "withdrawal")
        keys == {w[i].category : i \in 1..Len(w)}
    IN  [k \in keys |-> SumAmount(FilterBy(w, "category", k))]

(***************************************************************************)
(* extract_header_info: the labelled fields of the top rows of the sheet    *)
(***************************************************************************)
\* number of top rows handed to extract_header_info: df_raw.head(15)
HeadRows ==
    15

\* df.head(n)
HeadOf(sheet, n) ==
    SubSeq(sheet, 1, Min2(n, Len(sheet)))

\* line = ' '.join(map(str, row.dropna()))
RECURSIVE DropNa(_)
DropNa(row) ==
    IF row = <<>> THEN <<>>
    ELSE IF Head(row).t = "nan" THEN DropNa(Tail(row))
    ELSE <<AsStr(Head(row))>> \o DropNa(Tail(row))

LineOf(row) ==
    JoinSpace(DropNa(row))

\* the literal lit stands in s at position p
LitAt(lit, s, p) ==
    /\ p >= 1
    /\ p + Len(lit) - 1 <= Len(s)
    /\ SubSeq(s, p, p + Len(lit) - 1) = lit

\* \s* from position i: the position of the first character that is no space
RECURSIVE SkipSpaces(_, _)
SkipSpaces(s, i) ==
    IF i <= Len(s) /\ s[i] = " " THEN SkipSpaces(s, i + 1) ELSE i

\* (\d+) from position i: the position after the run of digits
RECURSIVE SkipDigits(_, _)
SkipDigits(s, i) ==
    IF i <= Len(s) /\ IsDigit(s[i]) THEN SkipDigits(s, i + 1) ELSE i

\* label\s*:\s* matched at position p: the position after it, or 0
AfterLabelColon(label, s, p) ==
    IF ~LitAt(label, s, p) THEN 0
    ELSE LET j == SkipSpaces(s, p + Len(label))
         IN  IF LitAt(<<":">>, s, j) THEN SkipSpaces(s, j + 1) ELSE 0

\* str.strip()
RECURSIVE StripSpaces(_)
StripSpaces(s) ==
    IF s # <<>> /\ s[1] = " " THEN StripSpaces(Tail(s))
    ELSE IF s # <<>> /\ s[Len(s)] = " " THEN StripSpaces(SubSeq(s, 1, Len(s) - 1))
    ELSE s

\* the smallest member of a non-empty set of positions
MinOf(S) ==
    CHOOSE x \in S : \A y \in S : x <= y

\* re.search(label\s*:\s*(\d+), line): group 1 of the leftmost match, or None
SearchLabelDigits(label, s) ==
    LET P == {p \in 1..Len(s) :
                 /\ AfterLabelColon(label, s, p) # 0
                 /\ SkipDigits(s, AfterLabelColon(label, s, p)) > AfterLabelColon(label, s, p)}
    IN  IF P = {} THEN [isNone |-> TRUE, v |-> <<>>]
        ELSE LET k == AfterLabelColon(label, s, MinOf(P))
             IN  [isNone |-> FALSE, v |-> SubSeq(s, k, SkipDigits(s, k) - 1)]

\* re.search(r'Email\s*:\s*(.*)', line): group 1 stripped, or None
SearchEmail(s) ==
    LET P == {p \in 1..Len(s) : AfterLabelColon(<<"E","m","a","i","l">>, s, p) # 0}
    IN  IF P = {} THEN [isNone |-> TRUE, v |-> <<>>]
        ELSE [isNone |-> FALSE,
              v |-> StripSpaces(SubSeq(s, AfterLabelColon(<<"E","m","a","i","l">>, s, MinOf(P)), Len(s)))]

\* length of what (MR|MRS|MS) matches at position p, alternatives tried in
\* their order, or 0
TitleAt(s, p) ==
    IF LitAt(<<"M","R">>, s, p) THEN 2
    ELSE IF LitAt(<<"M","R","S">>, s, p) THEN 3
    ELSE IF LitAt(<<"M","S">>, s, p) THEN 2
    ELSE 0

\* re.search(r'(MR|MRS|MS)\s*(.*)', line): group 2 stripped, or None
SearchName(s) ==
    LET P == {p \in 1..Len(s) : TitleAt(s, p) # 0}
    IN  IF P = {} THEN [isNone |-> TRUE, v |-> <<>>]
        ELSE LET p == MinOf(P)
             IN  [isNone |-> FALSE,
                  v |-> StripSpaces(SubSeq(s, SkipSpaces(s, p + TitleAt(s, p)), Len(s)))]

\* \s*To\s*:\s* matched at position j: the position after it, or 0
AfterTo(s, j) ==
    AfterLabelColon(<<"T","o">>, s, SkipSpaces(s, j))

\* re.search(r'Statement From\s*:\s*(.*?)\s*To\s*:\s*(.*)', line): the lazy
\* group 1 ends at the first position where the rest matches
SearchPeriod(s) ==
    LET Ends(k) == {j \in k..(Len(s) + 1) : AfterTo(s, j) # 0}
        P == {p \in 1..Len(s) :
                 /\ AfterLabelColon(<<"S","t","a","t","e","m","e","n","t"," ","F","r","o","m">>, s, p) # 0
                 /\ Ends(AfterLabelColon(<<"S","t","a","t","e","m","e","n","t"," ","F","r","o","m">>, s, p)) # {}}
    IN  IF P = {} THEN [isNone |-> TRUE, v |-> <<>>]
        ELSE LET k == AfterLabelColon(<<"S","t","a","t","e","m","e","n","t"," ","F","r","o","m">>, s, MinOf(P))
                 j == MinOf(Ends(k))
             IN  [isNone |-> FALSE,
                  v |-> [From |-> SubSeq(s, k, j - 1),
                         To |-> SubSeq(s, AfterTo(s, j), Len(s))]]

\* the key a line is examined for (the if/elif chain), and the match it gives
LineKey(s) ==
    IF Contains(<<"S","t","a","t","e","m","e","n","t"," ","F","r","o","m">>, s) THEN "Statement Period"
    ELSE IF Contains(<<"A","c","c","o","u","n","t"," ","N","o">>, s) THEN "Account Number"
    ELSE IF Contains(<<"E","m","a","i","l">>, s) THEN "Email"
    ELSE IF Contains(<<"M","R">>, s) \/ Contains(<<"M","R","S">>, s) \/ Contains(<<"M","S">>, s)
         THEN "Name"
    ELSE IF Contains(<<"C","u","s","t"," ","I","D">>, s) THEN "Customer ID"
    ELSE "none"

LineMatch(s) ==
    LET key == LineKey(s)
    IN  IF key = "Statement Period" THEN SearchPeriod(s)
        ELSE IF key = "Account Number" THEN SearchLabelDigits(<<"A","c","c","o","u","n","t"," ","N","o">>, s)
        ELSE IF key = "Email" THEN SearchEmail(s)
        ELSE IF key = "Name" THEN SearchName(s)
        ELSE IF key = "Customer ID" THEN SearchLabelDigits(<<"C","u","s","t"," ","I","D">>, s)
        ELSE [isNone |-> TRUE, v |-> <<>>]

\* header_info[key] = value
DictSet(d, key, value) ==
    [x \in (DOMAIN d) \cup {key} |-> IF x = key THEN value ELSE d[x]]

\* the loop over the rows of extract_header_info
RECURSIVE HeaderLoop(_, _, _)
HeaderLoop(sheet, i, info) ==
    IF i > Len(sheet) THEN info
    ELSE LET line == LineOf(sheet[i])
             match == LineMatch(line)
         IN  IF match.isNone THEN HeaderLoop(sheet, i + 1, info)
             ELSE HeaderLoop(sheet, i + 1, DictSet(info, LineKey(line), match.v))

extract_header_info(sheet) ==
    HeaderLoop(sheet, 1, <<>>)

(***************************************************************************)
(* The script Actual_bankstatement_parser.py, statement by statement        *)
(***************************************************************************)
\* header_info = extract_header_info(df_raw.head(15))
ExtractHeaderInfo ==
    /\ pc = "header"
    /\ header_info' = extract_header_info(HeadOf(df_raw, HeadRows))
    /\ pc' = "find"
    /\ UNCHANGED <<df_raw, start_idx, end_idx, df, total_expenditure, total_income,
                   category_spending, saved>>
    /\ UNCHANGED <<outlierVars, mainVars>>

\* start_idx, end_idx = find_transaction_data_indices(df_raw)
FindIndices ==
    /\ pc = "find"
    /\ start_idx' = find_transaction_data_indices(df_raw)[1]
    /\ end_idx' = find_transaction_data_indices(df_raw)[2]
    /\ pc' = "slice"
    /\ UNCHANGED <<df_raw, header_info, df, total_expenditure, total_income, category_spending, saved>>
    /\ UNCHANGED <<outlierVars, mainVars>>

\* df = df_raw.iloc[start_idx:end_idx].reset_index(drop=True); df.columns = ...
\* (no test of start_idx or end_idx against None comes before the slice)
ExtractTransactionData ==
    /\ pc = "slice"
    /\ df' = [i \in 1..Len(ILoc(df_raw, start_idx, end_idx)) |->
                 NamedRow(ILoc(df_raw, start_idx, end_idx)[i])]
    /\ pc' = "numeric"
    /\ UNCHANGED <<df_raw, header_info, start_idx, end_idx, total_expenditure, total_income,
                   category_spending, saved>>
    /\ UNCHANGED <<outlierVars, mainVars>>

\* df['withdrawal_amt'] = pd.to_numeric(...).fillna(0); the same for deposit_amt
ConvertNumeric ==
    /\ pc = "numeric"
    /\ df' = [i \in 1..Len(df) |->
                 [df[i] EXCEPT !.withdrawal_amt = ToNumericFillna(@),
                               !.deposit_amt = ToNumericFillna(@)]]
    /\ pc' = "derive"
    /\ UNCHANGED <<df_raw, header_info, start_idx, end_idx, total_expenditure, total_income,
                   category_spending, saved>>
    /\ UNCHANGED <<outlierVars, mainVars>>

\* df['amount'] = df.apply(calculate_amount, axis=1); df['transaction_type'] = ...
ApplyAmountAndType ==
    /\ pc = "derive"
    /\ df' = [i \in 1..Len(df) |->
                 [amount |-> calculate_amount(df[i]),
                  transaction_type |-> calculate_transaction_type(df[i])] @@ df[i]]
    /\ pc' = "clean"
    /\ UNCHANGED <<df_raw, header_info, start_idx, end_idx, total_expenditure, total_income,
                   category_spending, saved>>
    /\ UNCHANGED <<outlierVars, mainVars>>

\* df['narration_clean'] = df['narration'].apply(clean_text)
CleanNarration ==
    /\ pc = "clean"
    /\ df' = [i \in 1..Len(df) |->
                 [narration_clean |-> clean_text(df[i].narration)] @@ df[i]]
    /\ pc' = "categorize"
    /\ UNCHANGED <<df_raw, header_info, start_idx, end_idx, total_expenditure, total_income,
                   category_spending, saved>>
    /\ UNCHANGED <<outlierVars, mainVars>>

\* df['category'] = df['narration_clean'].apply(categorize_transaction)
Categorize ==
    /\ pc = "categorize"
    /\ df' = [i \in 1..Len(df) |->
                 [category |-> categorize_transaction(df[i].narration_clean)] @@ df[i]]
    /\ pc' = "totals"
    /\ UNCHANGED <<df_raw, header_info, start_idx, end_idx, total_expenditure, total_income,
                   category_spending, saved>>
    /\ UNCHANGED <<outlierVars, mainVars>>

\* total_expenditure, total_income and category_spending
ComputeTotals ==
    /\ pc = "totals"
    /\ total_expenditure' = SumAmount(FilterBy(df, "transaction_type", "withdrawal"))
    /\ total_income' = SumAmount(FilterBy(df, "transaction_type", "deposit"))
    /\ category_spending' = GroupByCategorySum(df)
    /\ pc' = "save"
    /\ UNCHANGED <<df_raw, header_info, start_idx, end_idx, df, saved>>
    /\ UNCHANGED <<outlierVars, mainVars>>

\* df.to_excel('cleaned_bank_statement.xlsx', index=False)
SaveCleaned ==
    /\ pc = "save"
    /\ saved' = Some(Len(df))
    /\ pc' = "done"
    /\ UNCHANGED <<df_raw, header_info, start_idx, end_idx, df, total_expenditure, total_income,
                   category_spending>>
    /\ UNCHANGED <<outlierVars, mainVars>>

NextParser ==
    \/ ExtractHeaderInfo
    \/ FindIndices
    \/ ExtractTransactionData
    \/ ConvertNumeric
    \/ ApplyAmountAndType
    \/ CleanNarration
    \/ Categorize
    \/ ComputeTotals
    \/ SaveCleaned

(***************************************************************************)
(* Raw sheets                                                              *)
(***************************************************************************)
\* the table's header row
HeaderRow ==
    <<TxtCell(<<"D","a","t","e">>), TxtCell(<<"V","a","l","u","e"," ","D","t">>),
      TxtCell(<<"N","a","r","r","a","t","i","o","n">>), TxtCell(<<"R","e","f">>),
      TxtCell(<<"W","i","t","h","d","r","a","w","a","l">>),
      TxtCell(<<"D","e","p","o","s","i","t">>), TxtCell(<<"B","a","l","a","n","c","e">>)>>

\* the row that opens the statement summary
SummaryRow ==
    <<TxtCell(<<"S","T","A","T","E","M","E","N","T"," ","S","U","M","M","A","R","Y"," ",":","-">>),
      NaNCell, NaNCell, NaNCell, NaNCell, NaNCell, NaNCell>>

\* a row that is neither a marker nor a transaction
FillerRow ==
    <<TxtCell(<<"*","*","*","*">>), NaNCell, NaNCell, NaNCell, NaNCell, NaNCell, NaNCell>>

\* a transaction row with the given narration text and amount cells
TxRow(narr, w, d) ==
    <<TxtCell(<<"0","1","/","0","2","/","2","3">>), TxtCell(<<"0","1","/","0","2","/","2","3">>),
      TxtCell(narr), NaNCell, w, d, NumCell(0)>>

NarrUpiAmazon ==
    <<"U","P","I","/","A","M","A","Z","O","N"," ","P","A","Y","/","1","2","3">>

NarrAtm ==
    <<"A","T","M"," ","W","D","L">>

NarrFuel ==
    <<"H","P","C","L","-","P","U","M","P">>

\* rows a sheet of SpecParser is made of
ParserRows ==
    {HeaderRow, SummaryRow, FillerRow,
     TxRow(NarrUpiAmazon, NumCell(2), NaNCell),
     TxRow(NarrAtm, NaNCell, NumCell(1))}

\* cells found in the withdrawal column
WithdrawalCells ==
    {NaNCell, NumCell(-1), NumCell(1), TxtCell(<<"2">>)}

\* cells found in the deposit column
DepositCells ==
    {NaNCell, NumCell(-1), NumCell(1), NumCell(2)}

LedgerRows ==
    {TxRow(n, w, d) : n \in {NarrUpiAmazon, NarrFuel}, w \in WithdrawalCells, d \in DepositCells}

\* the variables of the other programs, which the script leaves alone
InitOutlierIdle ==
    /\ o_series = <<>>
    /\ o_lower = 0
    /\ o_upper = 0
    /\ o_passes = <<>>

InitMainIdle ==
    /\ mpc = "idle"
    /\ m_df = <<>>
    /\ monthly_df = <<>>
    /\ prophet_df = <<>>
    /\ forecast = <<>>
    /\ displayed = <<>>
    /\ excel = <<>>
    /\ average_expense = 0
    /\ current_balance = 0
    /\ investable_amount = 0
    /\ age = 0
    /\ mutual_funds = None
    /\ plan = None

InitParserVars ==
    /\ InitOutlierIdle
    /\ InitMainIdle
    /\ pc = "header"
    /\ header_info = <<>>
    /\ start_idx = None
    /\ end_idx = None
    /\ df = <<>>
    /\ total_expenditure = 0
    /\ total_income = 0
    /\ category_spending = <<>>
    /\ saved = None

\* any sheet of up to MaxRows rows: markers missing, repeated or out of order
InitParser ==
    /\ df_raw \in SeqsOf(ParserRows, 0, MaxRows)
    /\ InitParserVars

\* a well-formed statement: header, transactions, a filler row, the summary
InitLedger ==
    /\ \E txs \in SeqsOf(LedgerRows, 0, MaxTx) :
           df_raw = <<HeaderRow>> \o txs \o <<FillerRow, SummaryRow>>
    /\ InitParserVars

\* words and separators a raw narration of SpecClassify is made of
NarrationTokens ==
    {<<"U","P","I">>, <<"A","M","A","Z","O","N">>, <<"P","A","Y">>, <<"1","2","3">>,
     <<"S","a","l","a","r","y">>, <<"B","i","l","l">>, <<"I","B">>, <<"G","a","s">>,
     <<"H","P","C","L">>, <<"c","a","f","e">>, <<"X","Y","Z">>, <<"T","M">>}

NarrationSeparators ==
    {<<"/">>, <<" ">>, <<"-"," ">>, <<>>}

\* raw narrations of 1..n tokens with a separator between neighbours
RECURSIVE NarrationsOf(_)
NarrationsOf(n) ==
    IF n = 1 THEN NarrationTokens
    ELSE NarrationsOf(n - 1) \cup
         {x \o sep \o tok : x \in NarrationsOf(n - 1), sep \in NarrationSeparators,
                            tok \in NarrationTokens}

\* a statement with one withdrawal whose narration varies
InitClassify ==
    /\ \E narr \in NarrationsOf(MaxTokens) \cup {NarrUpiAmazon} :
           df_raw = <<HeaderRow, TxRow(narr, NumCell(1), NaNCell), FillerRow, SummaryRow>>
    /\ InitParserVars

SpecParser ==
    InitParser /\ [][NextParser]_vars

SpecClassify ==
    InitClassify /\ [][NextParser]_vars

SpecLedger ==
    InitLedger /\ [][NextParser]_vars

\* a top row of the sheet holding one text, and one holding a label and a number
TextRow(text) ==
    <<TxtCell(text), NaNCell, NaNCell, NaNCell, NaNCell, NaNCell, NaNCell>>

LabelNumberRow(label, n) ==
    <<TxtCell(label), NumCell(n), NaNCell, NaNCell, NaNCell, NaNCell, NaNCell>>

\* top rows of a statement: each label twice with different values
HeaderInfoRows ==
    {FillerRow,
     TextRow(<<"S","t","a","t","e","m","e","n","t"," ","F","r","o","m"," ",":"," ","0","1"," ","T","o"," ",":"," ","3","1">>),
     TextRow(<<"S","t","a","t","e","m","e","n","t"," ","F","r","o","m"," ",":","0","2"," ","T","o"," ",":","2","8">>),
     LabelNumberRow(<<"A","c","c","o","u","n","t"," ","N","o"," ",":">>, 12),
     TextRow(<<"A","c","c","o","u","n","t"," ","N","o"," ",":","3","4"," ","E","m","a","i","l"," ",":"," ","x">>),
     TextRow(<<"E","m","a","i","l"," ",":"," ","a","@","b"," ">>),
     TextRow(<<"E","m","a","i","l"," ",":","c","@","d">>),
     TextRow(<<"M","R"," ","R","A","V","I">>),
     TextRow(<<"M","R","S"," ","A","N","U">>),
     LabelNumberRow(<<"C","u","s","t"," ","I","D"," ",":">>, 7),
     TextRow(<<"C","u","s","t"," ","I","D"," ",":"," ","8">>)}

\* the top of a sheet: up to MaxHeaderRows rows above any table
InitHeader ==
    /\ df_raw \in SeqsOf(HeaderInfoRows, 0, MaxHeaderRows)
    /\ InitParserVars

SpecHeader ==
    InitHeader /\ [][NextParser]_vars

(***************************************************************************)
(* Claims about Actual_bankstatement_parser.py                             *)
(***************************************************************************)
\* positions of the script at which df holds amount and transaction_type
AfterDerive ==
    {"clean", "categorize", "totals", "save", "done"}

\* positions of the script at which df holds category
AfterCategorize ==
    {"totals", "save", "done"}

\* positions of the script after the slice df_raw.iloc[start_idx:end_idx]
AfterSlice ==
    {"numeric", "derive"} \cup AfterDerive

\* the kind of the field that is nonzero, withdrawal first
KindOfNonzero(w, d) ==
    IF w # 0 THEN "withdrawal" ELSE IF d # 0 THEN "deposit" ELSE "unknown"

\* C1 as stated: for every ledger row, whatever the coerced amounts are,
\* amount = max(withdrawal_amt, deposit_amt), the kind is that of the nonzero
\* field (withdrawal first), and kind = unknown implies amount = 0
C1_AmountIsMaxOfFields ==
    pc \in AfterDerive =>
        \A i \in 1..Len(df) :
            /\ df[i].amount = Max2(df[i].withdrawal_amt, df[i].deposit_amt)
            /\ df[i].transaction_type = KindOfNonzero(df[i].withdrawal_amt, df[i].deposit_amt)
            /\ (df[i].transaction_type = "unknown" => df[i].amount = 0)

\* C1 amended: the amount is the withdrawal when it is positive, otherwise the
\* deposit when it is positive, otherwise 0; it equals max(withdrawal_amt,
\* deposit_amt) exactly when it is not the case that 0 < withdrawal < deposit or
\* that the larger field is negative; the kind is withdrawal iff the withdrawal
\* is positive, deposit iff only the deposit is positive, unknown otherwise;
\* kind = unknown implies amount = 0
C1_AmountWithdrawalFirst ==
    pc \in AfterDerive =>
        \A i \in 1..Len(df) :
            LET w == df[i].withdrawal_amt
                d == df[i].deposit_amt
            IN  /\ (w > 0 => df[i].amount = w)
                /\ (df[i].amount = Max2(w, d)) <=> (~(0 < w /\ w < d) /\ Max2(w, d) >= 0)
                /\ (df[i].transaction_type = "withdrawal") <=> (w > 0)
                /\ (df[i].transaction_type = "deposit") <=> (w <= 0 /\ d > 0)
                /\ (df[i].transaction_type = "unknown") <=> (w <= 0 /\ d <= 0)
                /\ (df[i].transaction_type = "unknown" => df[i].amount = 0)

\* C1 witness: a derived row with both fields positive and the deposit larger
C1_Witness ==
    /\ pc \in AfterDerive
    /\ \E i \in 1..Len(df) :
           /\ df[i].withdrawal_amt = 1
           /\ df[i].deposit_amt = 2
           /\ df[i].amount = 1
           /\ df[i].transaction_type = "withdrawal"

\* sum of f over the finite set S
RECURSIVE SumOver(_, _)
SumOver(S, f) ==
    IF S = {} THEN 0
    ELSE LET x == CHOOSE y \in S : TRUE
         IN  f[x] + SumOver(S \ {x}, f)

\* withdrawal_amt of every row of the ledger, added up
TotalWithdrawalAmt ==
    SumOver(1..Len(df), [i \in 1..Len(df) |-> df[i].withdrawal_amt])

\* withdrawal_amt of the rows of category c that have a positive withdrawal
PositiveWithdrawalsOf(c) ==
    LET S == {i \in 1..Len(df) : df[i].category = c /\ df[i].withdrawal_amt > 0}
    IN  SumOver(S, [i \in S |-> df[i].withdrawal_amt])

CategoryMatches(ci, s) ==
    \E k \in 1..Len(categories[ci].keywords) : Contains(categories[ci].keywords[k], s)

\* the first category in declaration order that matches s, others when none does
FirstDeclaredMatch(s) ==
    LET hits == {ci \in 1..Len(categories) : CategoryMatches(ci, s)}
    IN  IF hits = {} THEN "others"
        ELSE categories[CHOOSE ci \in hits : \A cj \in hits : ci <= cj].name

\* C3: every cleaned narration gets the first category in declaration order one
\* of whose keywords occurs in it, others when no keyword occurs; the raw
\* narration UPI/AMAZON PAY/123 is cleaned to 'upi amazon pay 123' and gets
\* transfer although amazon (shopping) occurs in it as well
C3_FirstDeclaredCategoryWins ==
    pc \in AfterCategorize =>
        \A i \in 1..Len(df) :
            /\ df[i].category = FirstDeclaredMatch(df[i].narration_clean)
            /\ (df[i].narration = TxtCell(NarrUpiAmazon) =>
                    /\ df[i].narration_clean =
                           <<"u","p","i"," ","a","m","a","z","o","n"," ","p","a","y"," ","1","2","3">>
                    /\ df[i].category = "transfer")

\* C3 witness: a narration that matches keywords of transfer and of shopping
C3_Witness ==
    /\ pc = "done"
    /\ \E i \in 1..Len(df) :
           /\ CategoryMatches(1, df[i].narration_clean)
           /\ CategoryMatches(3, df[i].narration_clean)
           /\ df[i].category = "transfer"

\* 1-based positions of the header rows and of the summary rows of the sheet
HeaderPositions ==
    {i \in 1..Len(df_raw) : IsHeaderRow(df_raw[i])}

SummaryPositions ==
    {i \in 1..Len(df_raw) : ~IsHeaderRow(df_raw[i]) /\ IsSummaryRow(df_raw[i])}

\* C4 as stated, on sheets with one header row and one summary row after it:
\* the ledger holds exactly the rows between the two markers
C4_LedgerIsRowsBetweenMarkers ==
    (/\ pc \in AfterSlice
     /\ Cardinality(HeaderPositions) = 1
     /\ Cardinality(SummaryPositions) = 1
     /\ \A h \in HeaderPositions : \A s \in SummaryPositions : h < s)
    => LET h == CHOOSE x \in HeaderPositions : TRUE
           s == CHOOSE x \in SummaryPositions : TRUE
       IN  /\ Len(df) = s - h - 1
           /\ \A k \in 1..Len(df) : df[k].narration = df_raw[h + k][3]

\* C5 as stated: with no header row in the sheet (start_idx left None) no
\* ledger is built from the sheet and nothing is exported
C5_NoLedgerWithNullStart ==
    start_idx.isNone => (df = <<>> /\ saved.isNone)

\* the first header row of the sheet, and the summary rows after it
FirstHeader ==
    CHOOSE h \in HeaderPositions : \A g \in HeaderPositions : h <= g

SummariesAfterFirstHeader ==
    {s \in SummaryPositions : s > FirstHeader}

\* C11 as stated: on a sheet with a header row, the start index is the row
\* after the FIRST header row (a later header row does not move it), and the
\* end index comes from the first summary row after that header: a summary
\* row before the header neither stops the scan nor sets the end
C11_FirstMarkersHonored ==
    (pc \notin {"header", "find"} /\ HeaderPositions # {}) =>
        /\ start_idx = Some((FirstHeader - 1) + 1)
        /\ IF SummariesAfterFirstHeader = {}
           THEN end_idx.isNone
           ELSE LET s == CHOOSE x \in SummariesAfterFirstHeader :
                             \A y \in SummariesAfterFirstHeader : x <= y
                IN  end_idx = Some((s - 1) - 1)

\* scanned rows whose line is examined for the key and gives a match
RowsSetting(key) ==
    {i \in 1..Len(HeadOf(df_raw, HeadRows)) :
        /\ LineKey(LineOf(df_raw[i])) = key
        /\ ~LineMatch(LineOf(df_raw[i])).isNone}

\* C12 as stated: the first match per label wins, every field of header_info
\* holds the value of the FIRST scanned row that matches its label, and a
\* later row matching the same label has left it unchanged
C12_FirstMatchPerLabelWins ==
    pc # "header" =>
        \A key \in DOMAIN header_info :
            header_info[key] = LineMatch(LineOf(df_raw[MinOf(RowsSetting(key))])).v

(***************************************************************************)
(* prediction_with_mutualfunds_recomendation.py: outlier filter            *)
(***************************************************************************)
\* a closing balance: a number, or NaN
Bal(v) ==
    [nan |-> FALSE, v |-> v]

NaNBal ==
    [nan |-> TRUE, v |-> 0]

\* one row of monthly_df
Point(ym, bal) ==
    [year_month |-> ym, closing_balance |-> bal]

\* the default quantile bounds of remove_outliers, in percent
DefaultLowerQuantile == 1
DefaultUpperQuantile == 99

\* the balances of a series that are numbers, in ascending order
SortedBalances(series) ==
    LET nums == SelectSeq(series, LAMBDA pt : ~pt.closing_balance.nan)
    IN  SortSeq([i \in 1..Len(nums) |-> nums[i].closing_balance.v], LAMBDA a, b : a < b)

\* Series.quantile(p / 100), linear interpolation between the two nearest order
\* statistics, NaN skipped; the result is 100 times the quantile, None for NaN
Quantile100(series, p) ==
    LET v   == SortedBalances(series)
        n   == Len(v)
        idx == p * (n - 1)
        lo  == idx \div 100
        r   == idx % 100
    IN  IF n = 0 THEN None
        ELSE IF r = 0 THEN Some(100 * v[lo + 1])
        ELSE Some(100 * v[lo + 1] + r * (v[lo + 2] - v[lo + 1]))

\* mutant: the two comparisons are strict
remove_outliers_strict(series, lq, uq) ==
    LET lower == Quantile100(series, lq)
        upper == Quantile100(series, uq)
    IN  SelectSeq(series, LAMBDA pt :
            /\ ~pt.closing_balance.nan
            /\ ~lower.isNone
            /\ 100 * pt.closing_balance.v > lower.v
            /\ 100 * pt.closing_balance.v < upper.v)

\* remove_outliers: no test of the length of the series; a comparison with NaN
\* is false, so rows with a NaN balance are dropped
remove_outliers(series, lq, uq) ==
    LET lower == Quantile100(series, lq)
        upper == Quantile100(series, uq)
    IN  SelectSeq(series, LAMBDA pt :
            /\ ~pt.closing_balance.nan
            /\ ~lower.isNone
            /\ 100 * pt.closing_balance.v >= lower.v
            /\ 100 * pt.closing_balance.v <= upper.v)

(***************************************************************************)
(* Investment rule engine.  investable_amount is in tenths of a currency   *)
(* unit, investment_percent in fortieths (0.10 = 4/40, 0.175 = 7/40,       *)
(* 0.225 = 9/40, 0.275 = 11/40), the allocation in hundredths.             *)
(***************************************************************************)
\* mutant: the result is not floored at zero
determine_investable_amount_no_floor(balance, expense) ==
    10 * balance - (10 * expense + 1 * expense)

\* current_balance - (average_expense + 0.10 * average_expense), floored at 0
determine_investable_amount(balance, expense) ==
    LET investable == 10 * balance - (10 * expense + 1 * expense)
    IN  Max2(investable, 0)

\* mutant: the upper ends of the bands are inclusive
get_investment_strategy_inclusive(a) ==
    IF 20 <= a /\ a <= 30 THEN [risk_tolerance |-> "High", investment_percent |-> 4]
    ELSE IF 30 <= a /\ a <= 40 THEN [risk_tolerance |-> "Moderate-High", investment_percent |-> 7]
    ELSE IF 40 <= a /\ a <= 50 THEN [risk_tolerance |-> "Moderate", investment_percent |-> 9]
    ELSE IF 50 <= a /\ a <= 60 THEN [risk_tolerance |-> "Low-Moderate", investment_percent |-> 11]
    ELSE [risk_tolerance |-> "Low", investment_percent |-> 9]

get_investment_strategy(a) ==
    IF 20 <= a /\ a < 30 THEN [risk_tolerance |-> "High", investment_percent |-> 4]
    ELSE IF 30 <= a /\ a < 40 THEN [risk_tolerance |-> "Moderate-High", investment_percent |-> 7]
    ELSE IF 40 <= a /\ a < 50 THEN [risk_tolerance |-> "Moderate", investment_percent |-> 9]
    ELSE IF 50 <= a /\ a < 60 THEN [risk_tolerance |-> "Low-Moderate", investment_percent |-> 11]
    ELSE [risk_tolerance |-> "Low", investment_percent |-> 9]

get_risk_allocation(risk_tolerance) ==
    IF risk_tolerance = "High" THEN [Equities |-> 75, Debt |-> 25]
    ELSE IF risk_tolerance = "Moderate-High" THEN [Equities |-> 65, Debt |-> 35]
    ELSE IF risk_tolerance = "Moderate" THEN [Equities |-> 55, Debt |-> 45]
    ELSE IF risk_tolerance = "Low-Moderate" THEN [Equities |-> 40, Debt |-> 60]
    ELSE [Equities |-> 20, Debt |-> 80]

\* the amounts create_investment_plan computes and prints
create_investment_plan(a, investable) ==
    LET strategy   == get_investment_strategy(a)
        allocation == get_risk_allocation(strategy.risk_tolerance)
        total      == investable * strategy.investment_percent
    IN  [age                |-> a,
         risk_tolerance     |-> strategy.risk_tolerance,
         investment_percent |-> strategy.investment_percent,
         allocation         |-> allocation,
         total_investment   |-> total,
         equity_investment  |-> total * allocation.Equities,
         debt_investment    |-> total * allocation.Debt]

(***************************************************************************)
(* The pure functions applied to inputs drawn from bounded sets            *)
(***************************************************************************)
InitParserIdle ==
    /\ pc = "idle"
    /\ header_info = <<>>
    /\ df_raw = <<>>
    /\ start_idx = None
    /\ end_idx = None
    /\ df = <<>>
    /\ total_expenditure = 0
    /\ total_income = 0
    /\ category_spending = <<>>
    /\ saved = None

\* balances of the series of SpecOutlier
OutlierBalances ==
    {Bal(-50), Bal(0), Bal(100), Bal(9000), NaNBal}

InitOutlier ==
    /\ InitParserIdle
    /\ InitMainIdle
    /\ \E bals \in SeqsOf(OutlierBalances, 0, MaxPoints) :
           o_series = [i \in 1..Len(bals) |-> Point(i, bals[i])]
    /\ o_lower \in {0, DefaultLowerQuantile, 25}
    /\ o_upper \in {75, DefaultUpperQuantile, 100}
    /\ o_passes = <<>>

\* remove_outliers called on the result of the previous call (on the input
\* series the first time), with the same bounds
ApplyRemoveOutliers ==
    /\ Len(o_passes) < 2
    /\ o_passes' = Append(o_passes,
           remove_outliers(IF o_passes = <<>> THEN o_series ELSE o_passes[Len(o_passes)],
                           o_lower, o_upper))
    /\ UNCHANGED <<o_series, o_lower, o_upper>>
    /\ UNCHANGED <<parserVars, mainVars>>

NextOutlier ==
    ApplyRemoveOutliers

SpecOutlier ==
    InitOutlier /\ [][NextOutlier]_vars

\* inputs of SpecInvest
BalanceInputs ==
    {-50, 0, 21, 22, 23, 100, 100000}

ExpenseInputs ==
    {0, 20, 100, 20000}

InitInvest ==
    /\ InitParserIdle
    /\ InitOutlierIdle
    /\ mpc = "inputs"
    /\ m_df = <<>>
    /\ monthly_df = <<>>
    /\ prophet_df = <<>>
    /\ forecast = <<>>
    /\ displayed = <<>>
    /\ excel = <<>>
    /\ average_expense \in ExpenseInputs
    /\ current_balance \in BalanceInputs
    /\ investable_amount = 0
    /\ age \in 0..MaxAge
    /\ mutual_funds = None
    /\ plan = None

\* investable_amount = determine_investable_amount(current_balance, average_expense)
ApplyDetermineInvestable ==
    /\ mpc = "inputs"
    /\ investable_amount' = determine_investable_amount(current_balance, average_expense)
    /\ mpc' = "applied_investable"
    /\ UNCHANGED <<m_df, monthly_df, prophet_df, forecast, displayed, excel,
                   average_expense, current_balance, age, mutual_funds, plan>>
    /\ UNCHANGED <<parserVars, outlierVars>>

\* create_investment_plan(age, investable_amount, mutual_funds)
ApplyCreatePlan ==
    /\ mpc = "applied_investable"
    /\ plan' = Some(create_investment_plan(age, investable_amount))
    /\ mpc' = "applied_plan"
    /\ UNCHANGED <<m_df, monthly_df, prophet_df, forecast, displayed, excel,
                   average_expense, current_balance, investable_amount, age, mutual_funds>>
    /\ UNCHANGED <<parserVars, outlierVars>>

NextInvest ==
    \/ ApplyDetermineInvestable
    \/ ApplyCreatePlan

SpecInvest ==
    InitInvest /\ [][NextInvest]_vars

(***************************************************************************)
(* Claims about the outlier filter and the investment rule engine          *)
(***************************************************************************)
\* the series has no NaN balance
NoNaN(series) ==
    \A i \in 1..Len(series) : ~series[i].closing_balance.nan

\* the series [(Jan,100),(Feb,-50),(Mar,9000)]
ScenarioSeries ==
    <<Point(1, Bal(100)), Point(2, Bal(-50)), Point(3, Bal(9000))>>

\* C6 as stated: a series of fewer than 3 points (without NaN) is returned
\* unfiltered for any bounds, and the 3-point series 100, -50, 9000 is returned
\* whole under the default 1%/99% bounds
C6_SmallSeriesUnfiltered ==
    Len(o_passes) >= 1 =>
        /\ (Len(o_series) < 3 /\ NoNaN(o_series) => o_passes[1] = o_series)
        /\ (/\ o_series = ScenarioSeries
            /\ o_lower = DefaultLowerQuantile
            /\ o_upper = DefaultUpperQuantile
            => o_passes[1] = o_series)

\* C7 as stated, on series whose filtered series still has 3 points or more:
\* a second call with the same bounds returns the result of the first
C7_Idempotent ==
    (Len(o_passes) = 2 /\ Len(o_passes[1]) >= 3) => o_passes[2] = o_passes[1]

\* the distinct balances of a series
BalancesOf(series) ==
    {series[i].closing_balance : i \in 1..Len(series)}

\* C7 amended: a second call with the same bounds returns the result of the
\* first when the bounds are 0 and 1 (0% and 100%) or when the filtered series
\* has at most one distinct balance
C7_IdempotentOnFullRangeOrConstant ==
    Len(o_passes) = 2 =>
        ((\/ (o_lower = 0 /\ o_upper = 100)
          \/ Cardinality(BalancesOf(o_passes[1])) <= 1)
         => o_passes[2] = o_passes[1])

\* C7 witness: with bounds 0%/100% the first call removed a point (a NaN
\* balance), three distinct balances were left, and a second call was made
C7_Witness ==
    /\ Len(o_passes) = 2
    /\ o_lower = 0
    /\ o_upper = 100
    /\ Len(o_passes[1]) < Len(o_series)
    /\ Cardinality(BalancesOf(o_passes[1])) >= 3
    /\ o_passes[2] = o_passes[1]

\* C9: determine_investable_amount returns max(current_balance - 1.10 *
\* average_expense, 0) (here in tenths: max(10 * balance - 11 * expense, 0)),
\* never a negative amount, and 78000 for balance 100000 and expense 20000
C9_InvestableIsFlooredDifference ==
    mpc \in {"applied_investable", "applied_plan"} =>
        /\ investable_amount >= 0
        /\ (10 * current_balance >= 11 * average_expense
               => investable_amount = 10 * current_balance - 11 * average_expense)
        /\ (10 * current_balance < 11 * average_expense => investable_amount = 0)
        /\ (current_balance = 100000 /\ average_expense = 20000
               => investable_amount = 10 * 78000)

\* C9 witness: the scenario of the specification has been computed
C9_Witness ==
    /\ mpc = "applied_investable"
    /\ current_balance = 100000
    /\ average_expense = 20000
    /\ investable_amount = 780000

\* the table of age bands: [lo, hi) -> risk tolerance, fraction in fortieths
AgeBands ==
    <<[lo |-> 20, hi |-> 30, risk |-> "High", pct |-> 4],
      [lo |-> 30, hi |-> 40, risk |-> "Moderate-High", pct |-> 7],
      [lo |-> 40, hi |-> 50, risk |-> "Moderate", pct |-> 9],
      [lo |-> 50, hi |-> 60, risk |-> "Low-Moderate", pct |-> 11]>>

\* the bands of the table that hold age a
BandsOf(a) ==
    {b \in 1..Len(AgeBands) : AgeBands[b].lo <= a /\ a < AgeBands[b].hi}

LedgerRow(month, day, bal, w) ==
    [date |-> [month |-> month, day |-> day], closing_balance |-> bal, withdrawal_amt |-> w]

\* the months (periods) that occur in the rows
MonthsOf(rows) ==
    {rows[i].date.month : i \in 1..Len(rows)}

\* the months of a set in ascending order, as groupby sorts its keys
SortedMonths(S) ==
    SortSeq(CHOOSE s \in [1..Cardinality(S) -> S] : \A i, j \in 1..Cardinality(S) :
                i # j => s[i] # s[j],
            LAMBDA a, b : a < b)

\* GroupBy.last(): the last value of the group, in row order, that is not NaN;
\* NaN when there is none
RECURSIVE LastValid(_)
LastValid(rows) ==
    IF rows = <<>> THEN NaNBal
    ELSE IF ~rows[Len(rows)].closing_balance.nan THEN rows[Len(rows)].closing_balance
    ELSE LastValid(SubSeq(rows, 1, Len(rows) - 1))

\* aggregate_monthly_last: one row per month, in ascending order of the month
aggregate_monthly_last(rows) ==
    LET months == SortedMonths(MonthsOf(rows))
    IN  [k \in 1..Len(months) |->
            Point(months[k],
                  LastValid(SelectSeq(rows, LAMBDA r : r.date.month = months[k])))]

\* prepare_prophet_df: the columns renamed to ds and y
prepare_prophet_df(monthly) ==
    [k \in 1..Len(monthly) |-> [ds |-> monthly[k].year_month, y |-> monthly[k].closing_balance]]

\* floor of a forecast value: max(x, 0)
FloorZero(x) ==
    Max2(x, 0)

\* the three assignments that floor yhat, yhat_lower and yhat_upper of a frame
FloorFrame(frame) ==
    [k \in 1..Len(frame) |->
        [frame[k] EXCEPT !.yhat = FloorZero(@),
                         !.yhat_lower = FloorZero(@),
                         !.yhat_upper = FloorZero(@)]]

\* forecast.tail(n)
TailRows(frame, n) ==
    SubSeq(frame, Max2(Len(frame) - n, 0) + 1, Len(frame))

\* rows display_forecast formats and prints: the tail, floored in a copy
display_forecast(frame, n) ==
    FloorFrame(TailRows(frame, n))

\* rows save_forecast_to_excel writes: the tail as it is
save_forecast_to_excel(frame, n) ==
    TailRows(frame, n)

\* month -> sum of withdrawal_amt, then the mean over the months; the inputs
\* of SpecMain keep the mean an integer
RECURSIVE SumWithdrawals(_)
SumWithdrawals(rows) ==
    IF rows = <<>> THEN 0 ELSE Head(rows).withdrawal_amt + SumWithdrawals(Tail(rows))

calculate_average_monthly_expense(rows) ==
    SumWithdrawals(rows) \div Cardinality(MonthsOf(rows))

\* values the forecaster may return for one month
ForecastTriples ==
    {[yhat |-> -20, yhat_lower |-> -30, yhat_upper |-> -10],
     [yhat |-> 100, yhat_lower |-> -5, yhat_upper |-> 200],
     [yhat |-> 100, yhat_lower |-> 50, yhat_upper |-> 200]}

\* ages get_user_age may return
AgeInputs ==
    {0, 19, 20, 35, 60}

\* rows of the statement main() loads
MainRows ==
    {LedgerRow(m, 1, b, w) : m \in {1, 2, 3}, b \in {Bal(-50), Bal(100), NaNBal}, w \in {0, 60}}

InitMain ==
    /\ InitParserIdle
    /\ InitOutlierIdle
    /\ mpc = "aggregate"
    /\ m_df \in SeqsOf(MainRows, 0, MaxLedger)
    /\ monthly_df = <<>>
    /\ prophet_df = <<>>
    /\ forecast = <<>>
    /\ displayed = <<>>
    /\ excel = <<>>
    /\ average_expense = 0
    /\ current_balance = 0
    /\ investable_amount = 0
    /\ age = 0
    /\ mutual_funds = None
    /\ plan = None

\* Step 3: monthly_df = aggregate_monthly_last(df)
Aggregate ==
    /\ mpc = "aggregate"
    /\ monthly_df' = aggregate_monthly_last(m_df)
    /\ mpc' = "outliers"
    /\ UNCHANGED <<m_df, prophet_df, forecast, displayed, excel, average_expense,
                   current_balance, investable_amount, age, mutual_funds, plan>>
    /\ UNCHANGED <<parserVars, outlierVars>>

\* Step 4: monthly_df = remove_outliers(monthly_df), default bounds
RemoveOutliers ==
    /\ mpc = "outliers"
    /\ monthly_df' = remove_outliers(monthly_df, DefaultLowerQuantile, DefaultUpperQuantile)
    /\ mpc' = "prepare"
    /\ UNCHANGED <<m_df, prophet_df, forecast, displayed, excel, average_expense,
                   current_balance, investable_amount, age, mutual_funds, plan>>
    /\ UNCHANGED <<parserVars, outlierVars>>

\* Step 6: prophet_df = prepare_prophet_df(monthly_df)
Prepare ==
    /\ mpc = "prepare"
    /\ prophet_df' = prepare_prophet_df(monthly_df)
    /\ mpc' = "fit"
    /\ UNCHANGED <<m_df, monthly_df, forecast, displayed, excel, average_expense,
                   current_balance, investable_amount, age, mutual_funds, plan>>
    /\ UNCHANGED <<parserVars, outlierVars>>

\* Steps 7 and 8, the forecaster refusing a history of fewer than 2 rows:
\* the exception ends main
FitFails ==
    /\ mpc = "fit"
    /\ Len(prophet_df) < 2
    /\ mpc' = "crashed"
    /\ UNCHANGED <<m_df, monthly_df, prophet_df, forecast, displayed, excel, average_expense,
                   current_balance, investable_amount, age, mutual_funds, plan>>
    /\ UNCHANGED <<parserVars, outlierVars>>

\* Steps 7 and 8: the forecaster returns one row per month of the history and
\* Periods rows after it; its values are its own (one triple for the history,
\* one for each future month)
FitAndForecast ==
    /\ mpc = "fit"
    /\ Len(prophet_df) >= 2
    /\ \E hist \in ForecastTriples : \E fut \in [1..Periods -> ForecastTriples] :
           forecast' = [k \in 1..(Len(prophet_df) + Periods) |->
                           [ds |-> k] @@ (IF k <= Len(prophet_df) THEN hist
                                          ELSE fut[k - Len(prophet_df)])]
    /\ mpc' = "display"
    /\ UNCHANGED <<m_df, monthly_df, prophet_df, displayed, excel, average_expense,
                   current_balance, investable_amount, age, mutual_funds, plan>>
    /\ UNCHANGED <<parserVars, outlierVars>>

\* Step 9: display_forecast(forecast, periods): floors a copy of the tail
DisplayForecast ==
    /\ mpc = "display"
    /\ displayed' = display_forecast(forecast, Periods)
    /\ mpc' = "save"
    /\ UNCHANGED <<m_df, monthly_df, prophet_df, forecast, excel, average_expense,
                   current_balance, investable_amount, age, mutual_funds, plan>>
    /\ UNCHANGED <<parserVars, outlierVars>>

\* Step 10: save_forecast_to_excel(forecast, periods)
SaveForecast ==
    /\ mpc = "save"
    /\ excel' = save_forecast_to_excel(forecast, Periods)
    /\ mpc' = "plot"
    /\ UNCHANGED <<m_df, monthly_df, prophet_df, forecast, displayed, average_expense,
                   current_balance, investable_amount, age, mutual_funds, plan>>
    /\ UNCHANGED <<parserVars, outlierVars>>

\* Step 11: plot_forecast floors the three columns of forecast in place
PlotForecast ==
    /\ mpc = "plot"
    /\ forecast' = FloorFrame(forecast)
    /\ mpc' = "expense"
    /\ UNCHANGED <<m_df, monthly_df, prophet_df, displayed, excel, average_expense,
                   current_balance, investable_amount, age, mutual_funds, plan>>
    /\ UNCHANGED <<parserVars, outlierVars>>

\* average_expense = calculate_average_monthly_expense(df)
AverageExpense ==
    /\ mpc = "expense"
    /\ average_expense' = calculate_average_monthly_expense(m_df)
    /\ mpc' = "balance"
    /\ UNCHANGED <<m_df, monthly_df, prophet_df, forecast, displayed, excel,
                   current_balance, investable_amount, age, mutual_funds, plan>>
    /\ UNCHANGED <<parserVars, outlierVars>>

\* Step 13: current_balance = forecast.iloc[-1]['yhat']
CurrentBalance ==
    /\ mpc = "balance"
    /\ current_balance' = forecast[Len(forecast)].yhat
    /\ mpc' = "investable"
    /\ UNCHANGED <<m_df, monthly_df, prophet_df, forecast, displayed, excel,
                   average_expense, investable_amount, age, mutual_funds, plan>>
    /\ UNCHANGED <<parserVars, outlierVars>>

\* Step 14: investable_amount = determine_investable_amount(...); main returns
\* when it is not positive
Investable ==
    /\ mpc = "investable"
    /\ investable_amount' = determine_investable_amount(current_balance, average_expense)
    /\ mpc' = IF determine_investable_amount(current_balance, average_expense) <= 0
              THEN "done" ELSE "age"
    /\ UNCHANGED <<m_df, monthly_df, prophet_df, forecast, displayed, excel,
                   average_expense, current_balance, age, mutual_funds, plan>>
    /\ UNCHANGED <<parserVars, outlierVars>>

\* Step 15: age = get_user_age(), which returns only an integer >= 0
GetUserAge ==
    /\ mpc = "age"
    /\ age' \in AgeInputs
    /\ mpc' = "funds"
    /\ UNCHANGED <<m_df, monthly_df, prophet_df, forecast, displayed, excel,
                   average_expense, current_balance, investable_amount, mutual_funds, plan>>
    /\ UNCHANGED <<parserVars, outlierVars>>

\* Step 16 without the return on a missing catalog
LoadMutualFundsNoReturn ==
    /\ mpc = "funds"
    /\ \E loaded \in BOOLEAN :
           /\ mutual_funds' = IF loaded THEN Some(1) ELSE None
           /\ mpc' = "plan"
    /\ UNCHANGED <<m_df, monthly_df, prophet_df, forecast, displayed, excel,
                   average_expense, current_balance, investable_amount, age, plan>>
    /\ UNCHANGED <<parserVars, outlierVars>>

\* Step 16: mutual_funds = load_mutual_funds(...): None when the file is
\* missing or unreadable, and then main returns
LoadMutualFunds ==
    /\ mpc = "funds"
    /\ \E loaded \in BOOLEAN :
           /\ mutual_funds' = IF loaded THEN Some(1) ELSE None
           /\ mpc' = IF loaded THEN "plan" ELSE "done"
    /\ UNCHANGED <<m_df, monthly_df, prophet_df, forecast, displayed, excel,
                   average_expense, current_balance, investable_amount, age, plan>>
    /\ UNCHANGED <<parserVars, outlierVars>>

\* Step 17: create_investment_plan(age, investable_amount, mutual_funds)
CreatePlan ==
    /\ mpc = "plan"
    /\ plan' = Some(create_investment_plan(age, investable_amount))
    /\ mpc' = "done"
    /\ UNCHANGED <<m_df, monthly_df, prophet_df, forecast, displayed, excel,
                   average_expense, current_balance, investable_amount, age, mutual_funds>>
    /\ UNCHANGED <<parserVars, outlierVars>>

NextMain ==
    \/ Aggregate
    \/ RemoveOutliers
    \/ Prepare
    \/ FitFails
    \/ FitAndForecast
    \/ DisplayForecast
    \/ SaveForecast
    \/ PlotForecast
    \/ AverageExpense
    \/ CurrentBalance
    \/ Investable
    \/ GetUserAge
    \/ LoadMutualFunds
    \/ CreatePlan

SpecMain ==
    InitMain /\ [][NextMain]_vars

(***************************************************************************)
(* Claims about main()                                                     *)
(***************************************************************************)
\* no forecast field of the rows is negative
NoNegativeField(rows) ==
    \A k \in 1..Len(rows) :
        rows[k].yhat >= 0 /\ rows[k].yhat_lower >= 0 /\ rows[k].yhat_upper >= 0

\* positions of main after save_forecast_to_excel has written its rows
AfterSave ==
    {"plot", "expense", "balance", "investable", "age", "funds", "plan", "done"}

\* C8 as stated: once the forecaster has returned, no value is negative in the
\* rows display_forecast prints nor in the rows save_forecast_to_excel writes,
\* and the series handed to the forecaster is the monthly series, not floored
C8_ForecastOutputsFloored ==
    /\ (mpc \in {"save"} \cup AfterSave => NoNegativeField(displayed))
    /\ (mpc \in AfterSave => NoNegativeField(excel))
    /\ (mpc \in {"display", "save"} \cup AfterSave =>
            prophet_df = prepare_prophet_df(
                remove_outliers(aggregate_monthly_last(m_df),
                                DefaultLowerQuantile, DefaultUpperQuantile)))

\* create_investment_plan has been reached: main stands at the call or the
\* plan exists
PlanReached ==
    mpc = "plan" \/ ~plan.isNone

\* what holds whenever the plan has been reached, and when main has returned
\* early
PlanPreconditions ==
    /\ PlanReached =>
           /\ displayed = display_forecast(forecast, Periods) /\ displayed # <<>>
           /\ excel # <<>>
           /\ NoNegativeField(forecast)
           /\ current_balance = forecast[Len(forecast)].yhat
           /\ current_balance >= 0
           /\ investable_amount > 0
           /\ investable_amount =
                  determine_investable_amount(current_balance, average_expense)
           /\ ~mutual_funds.isNone
    /\ (mpc = "done" /\ (investable_amount <= 0 \/ mutual_funds.isNone)) => plan.isNone

AggregateRows ==
    {LedgerRow(m, d, b, 0) : m \in {1, 2}, d \in {1, 2}, b \in {Bal(-50), Bal(100), NaNBal}}

\* any data frame of up to MaxAggRows rows, in any order of the dates
InitAggregate ==
    /\ InitParserIdle
    /\ InitOutlierIdle
    /\ mpc = "frame"
    /\ m_df \in SeqsOf(AggregateRows, 0, MaxAggRows)
    /\ monthly_df = <<>>
    /\ prophet_df = <<>>
    /\ forecast = <<>>
    /\ displayed = <<>>
    /\ excel = <<>>
    /\ average_expense = 0
    /\ current_balance = 0
    /\ investable_amount = 0
    /\ age = 0
    /\ mutual_funds = None
    /\ plan = None

\* monthly_df = aggregate_monthly_last(df)
ApplyAggregate ==
    /\ mpc = "frame"
    /\ monthly_df' = aggregate_monthly_last(m_df)
    /\ mpc' = "applied_aggregate"
    /\ UNCHANGED <<m_df, prophet_df, forecast, displayed, excel, average_expense,
                   current_balance, investable_amount, age, mutual_funds, plan>>
    /\ UNCHANGED <<parserVars, outlierVars>>

NextAggregate ==
    ApplyAggregate

SpecAggregate ==
    InitAggregate /\ [][NextAggregate]_vars

\* row i is the chronologically last row of its month, and it has a balance
IsLatestOfMonth(i) ==
    /\ ~m_df[i].closing_balance.nan
    /\ \A j \in 1..Len(m_df) :
           (j # i /\ m_df[j].date.month = m_df[i].date.month) =>
               m_df[j].date.day < m_df[i].date.day

\* C13 as stated: one point per month present, the months strictly
\* increasing, and the point of a month holds the closing balance of the
\* chronologically last transaction of the month, whatever the row order
C13_MonthlyLastIsChronologicallyLast ==
    mpc = "applied_aggregate" =>
        /\ {monthly_df[k].year_month : k \in 1..Len(monthly_df)} = MonthsOf(m_df)
        /\ \A k \in 1..(Len(monthly_df) - 1) :
               monthly_df[k].year_month < monthly_df[k + 1].year_month
        /\ \A k \in 1..Len(monthly_df) : \A i \in 1..Len(m_df) :
               (m_df[i].date.month = monthly_df[k].year_month /\ IsLatestOfMonth(i)) =>
                   monthly_df[k].closing_balance = m_df[i].closing_balance

====
